---- MODULE Spec2Model ----
(***************************************************************************)
(* Model of ip-lookup.py: a command line tool that reads a list of IP      *)
(* addresses or DNS names and looks each one up with a chain of four       *)
(* geolocation providers, falling over to the next provider when one       *)
(* answers with a rate limit.                                              *)
(*                                                                         *)
(* A line of the input file is a sequence of atoms: the atom " " is any    *)
(* whitespace (the newline that ends the line included), every other atom  *)
(* is a run of non-blank text.  A delay is kept in tenths of a second.     *)
(***************************************************************************)
EXTENDS Integers, Sequences, FiniteSets, TLC

VARIABLES
    argv_len,               \* len(sys.argv)
    input_file,             \* the input file: [status, lines]
    output_file,            \* the output file: "absent" or the written report
    stdout,                 \* the error / usage / completion messages printed
    pc,                     \* position of the process
    exit_status,            \* -1 while running, else the exit status
    exception,              \* the exception that ended the process, if any
    entries,                \* process_file: the stripped non-blank lines
    results,                \* process_file: the accumulated records
    i,                      \* process_file: 1-based number of the entry
    ip,                     \* process_file: the address given to the lookup
    ret,                    \* what lookup_ip_with_fallback returned
    API_PROVIDERS,          \* the provider registry, with the failed flags
    current_provider_index, \* the registry cursor (0-based)
    attempts,               \* lookup_ip_with_fallback: the attempt counter
    steps,                  \* history: loop iterations of the current call
    calls,                  \* history: every adapter invocation
    dns_calls,              \* history: every entry given to the DNS resolver
    sleeps,                 \* history: every pacing pause
    adapter_call,           \* an adapter called on its own: [func, resp]
    adapter_result          \* what that adapter returned

vars == <<argv_len, input_file, output_file, stdout, pc, exit_status, exception, entries,
          results, i, ip, ret, API_PROVIDERS, current_provider_index,
          attempts, steps, calls, dns_calls, sleeps, adapter_call, adapter_result>>

-----------------------------------------------------------------------------
(* Bounds *)

MaxLines == 3

-----------------------------------------------------------------------------
(* Values *)

PyNone == "<None>"

WS == " "

IPLiterals == {"8.8.8.8"}

MalformedHosts == {"a..b"}

\* the lines an input file is made of
FileLines ==
    { <<WS>>,
      <<WS, "8.8.8.8", WS>>,
      <<"example.com", WS>>,
      <<"a..b", WS>> }

RECURSIVE SeqsUpTo(_, _)
SeqsUpTo(S, n) ==
    IF n = 0 THEN { <<>> }
    ELSE LET shorter == SeqsUpTo(S, n - 1)
         IN  shorter \cup { Append(s, x) : s \in { t \in shorter : Len(t) = n - 1 }, x \in S }

Get(d, k, default) == IF k \in DOMAIN d THEN d[k] ELSE default

-----------------------------------------------------------------------------
(* str.strip() and the reading of the entries *)

RECURSIVE lstrip(_)
lstrip(s) == IF s # <<>> /\ Head(s) = WS THEN lstrip(Tail(s)) ELSE s

RECURSIVE rstrip(_)
rstrip(s) ==
    IF s # <<>> /\ s[Len(s)] = WS THEN rstrip(SubSeq(s, 1, Len(s) - 1)) ELSE s

\* the atoms of a string put together again
RECURSIVE Join(_)
Join(s) == IF s = <<>> THEN "" ELSE Head(s) \o Join(Tail(s))

strip(s) == Join(rstrip(lstrip(s)))

\* [line.strip() for line in f if line.strip()]
RECURSIVE read_entries(_)
read_entries(lines) ==
    IF lines = <<>> THEN <<>>
    ELSE IF strip(Head(lines)) # ""
         THEN <<strip(Head(lines))>> \o read_entries(Tail(lines))
         ELSE read_entries(Tail(lines))

\* variant: nothing is taken for an IP literal
is_valid_ip_never(s) == FALSE

is_valid_ip(s) == s \in IPLiterals

-----------------------------------------------------------------------------
(* The DNS resolver *)

\* what socket.gethostbyname can do with a host name
GetHostByName(hostname) ==
    IF hostname \in MalformedHosts
    THEN { [kind |-> "UnicodeError", addr |-> PyNone] }
    ELSE { [kind |-> "address", addr |-> "93.184.216.34"],
           [kind |-> "gaierror", addr |-> PyNone] }

\* variant: a default address stands in for a name that does not resolve
resolve_dns_default(answer) ==
    IF answer.kind = "address" THEN [raised |-> FALSE, value |-> answer.addr]
    ELSE IF answer.kind = "gaierror" THEN [raised |-> FALSE, value |-> "0.0.0.0"]
    ELSE [raised |-> TRUE, value |-> PyNone]

\* resolve_dns for one answer of gethostbyname: the value returned, or the
\* exception that leaves the function
resolve_dns(answer) ==
    IF answer.kind = "address" THEN [raised |-> FALSE, value |-> answer.addr]
    ELSE IF answer.kind = "gaierror" THEN [raised |-> FALSE, value |-> PyNone]
    ELSE [raised |-> TRUE, value |-> PyNone]

-----------------------------------------------------------------------------
(* The provider adapters, as functions of what the HTTP request did *)

FoundData ==
    [status |-> "success", success |-> TRUE, org |-> "Google LLC",
     regionName |-> "California", region |-> "California",
     country |-> "United States", country_name |-> "United States",
     connection |-> [org |-> "Google LLC", isp |-> "Google LLC"]]

FailData == [status |-> "fail", success |-> FALSE, error |-> TRUE, reason |-> "Reserved"]

RateLimitedData == [error |-> TRUE, reason |-> "RateLimited"]

Responses ==
    { [kind |-> "body", code |-> 200, data |-> FoundData],
      [kind |-> "body", code |-> 200, data |-> FailData],
      [kind |-> "body", code |-> 200, data |-> RateLimitedData],
      [kind |-> "HTTPError", code |-> 429, data |-> <<>>],
      [kind |-> "HTTPError", code |-> 500, data |-> <<>>],
      [kind |-> "Exception", code |-> 0, data |-> <<>>] }

\* variant: every status from 429 up is taken for a rate limit
HTTPErrorOutcome_ge(resp) ==
    IF resp.code >= 429 THEN <<PyNone, PyNone, FALSE>>
    ELSE <<"HTTP Error: " \o ToString(resp.code), "N/A", TRUE>>

HTTPErrorOutcome(resp) ==
    IF resp.code = 429 THEN <<PyNone, PyNone, FALSE>>
    ELSE <<"HTTP Error: " \o ToString(resp.code), "N/A", TRUE>>

\* str(e) of the exception that urlopen, json.loads or the reading of the
\* payload raised
ExceptionText(resp) ==
    CASE resp.kind = "URLError"    -> "<urlopen error [Errno 111] Connection refused>"
      [] resp.kind = "InvalidJSON" -> "Expecting value: line 1 column 1 (char 0)"
      [] resp.kind = "NotAnObject" -> "'list' object has no attribute 'get'"
      [] OTHER                     -> "timed out"

\* variant: an exception is reported like an unsuccessful lookup
ExceptionOutcome_unknown(resp) == <<"Unknown", "Unknown", TRUE>>

ExceptionOutcome(resp) == <<"Error: " \o ExceptionText(resp), "N/A", TRUE>>

lookup_ipapi_com(resp) ==
    IF resp.kind = "body" THEN
        IF Get(resp.data, "status", PyNone) = "success"
        THEN <<Get(resp.data, "org", "Unknown"),
               Get(resp.data, "regionName", "Unknown") \o ", " \o Get(resp.data, "country", "Unknown"),
               TRUE>>
        ELSE <<"Unknown", "Unknown", TRUE>>
    ELSE IF resp.kind = "HTTPError" THEN HTTPErrorOutcome(resp)
    ELSE ExceptionOutcome(resp)

lookup_ipapi_co(resp) ==
    IF resp.kind = "body" THEN
        IF "error" \in DOMAIN resp.data
        THEN IF Get(resp.data, "reason", PyNone) = "RateLimited"
             THEN <<PyNone, PyNone, FALSE>>
             ELSE <<"Unknown", "Unknown", TRUE>>
        ELSE <<Get(resp.data, "org", "Unknown"),
               Get(resp.data, "region", "Unknown") \o ", " \o Get(resp.data, "country_name", "Unknown"),
               TRUE>>
    ELSE IF resp.kind = "HTTPError" THEN HTTPErrorOutcome(resp)
    ELSE ExceptionOutcome(resp)

lookup_ipwhois_io(resp) ==
    IF resp.kind = "body" THEN
        IF ~Get(resp.data, "success", FALSE)
        THEN <<"Unknown", "Unknown", TRUE>>
        ELSE LET connection == Get(resp.data, "connection", <<>>)
                 org == Get(connection, "org", "Unknown")
                 owner == IF org = "Unknown" \/ org = ""
                          THEN Get(connection, "isp", "Unknown") ELSE org
             IN  <<owner,
                   Get(resp.data, "region", "Unknown") \o ", " \o Get(resp.data, "country", "Unknown"),
                   TRUE>>
    ELSE IF resp.kind = "HTTPError" THEN HTTPErrorOutcome(resp)
    ELSE ExceptionOutcome(resp)

lookup_ipwhois_app(resp) ==
    IF resp.kind = "body" THEN
        IF ~Get(resp.data, "success", FALSE)
        THEN <<"Unknown", "Unknown", TRUE>>
        ELSE LET org == Get(resp.data, "org", "Unknown")
                 owner == IF org = "Unknown" \/ org = ""
                          THEN Get(resp.data, "isp", "Unknown") ELSE org
             IN  <<owner,
                   Get(resp.data, "region", "Unknown") \o ", " \o Get(resp.data, "country", "Unknown"),
                   TRUE>>
    ELSE IF resp.kind = "HTTPError" THEN HTTPErrorOutcome(resp)
    ELSE ExceptionOutcome(resp)

\* provider['func'](ip)
CallFunc(func, resp) ==
    CASE func = "lookup_ipapi_com"   -> lookup_ipapi_com(resp)
      [] func = "lookup_ipapi_co"    -> lookup_ipapi_co(resp)
      [] func = "lookup_ipwhois_io"  -> lookup_ipwhois_io(resp)
      [] func = "lookup_ipwhois_app" -> lookup_ipwhois_app(resp)

-----------------------------------------------------------------------------
(* The registry *)

InitialProviders ==
    << [name |-> "ip-api.com",  func |-> "lookup_ipapi_com",   delay |-> 15, failed |-> FALSE],
       [name |-> "ipapi.co",    func |-> "lookup_ipapi_co",    delay |-> 20, failed |-> FALSE],
       [name |-> "ipwho.is",    func |-> "lookup_ipwhois_io",  delay |-> 10, failed |-> FALSE],
       [name |-> "ipwhois.app", func |-> "lookup_ipwhois_app", delay |-> 10, failed |-> FALSE] >>

N == Len(InitialProviders)

\* API_PROVIDERS[index] with the 0-based index of the program
Provider(index) == API_PROVIDERS[index + 1]

\* variant: the cursor moves by two
NextIndex_two(index) == (index + 2) % N

NextIndex(index) == (index + 1) % N

\* variant: the failed flag is not looked at
ShouldSkip_never(provider) == FALSE

ShouldSkip(provider) == provider.failed

\* variant: one attempt too many
LoopContinues_le(n) == n <= N

\* variant: one attempt too few
LoopContinues_short(n) == n < N - 1

LoopContinues(n) == n < N

Sentinel == <<"All APIs exhausted", "N/A", "None", 0>>

NoReturn == <<PyNone, PyNone, PyNone, 0>>

NoCall == [func |-> PyNone]

-----------------------------------------------------------------------------
(* Initial state: the process has just been started *)

ArgvLens == {2, 3}

InputFiles ==
    { [status |-> "ok", lines |-> l] : l \in SeqsUpTo(FileLines, MaxLines) }
        \cup { [status |-> "missing", lines |-> <<>>],
               [status |-> "unreadable", lines |-> <<>>] }

Init ==
    /\ argv_len \in ArgvLens
    /\ input_file \in InputFiles
    /\ argv_len # 3 => input_file.status = "missing"
    /\ output_file = "absent"
    /\ stdout = <<>>
    /\ pc = "main"
    /\ exit_status = -1
    /\ exception = PyNone
    /\ entries = <<>>
    /\ results = <<>>
    /\ i = 0
    /\ ip = PyNone
    /\ ret = NoReturn
    /\ API_PROVIDERS = InitialProviders
    /\ current_provider_index = 0
    /\ attempts = 0
    /\ steps = 0
    /\ calls = <<>>
    /\ dns_calls = <<>>
    /\ sleeps = <<>>
    /\ adapter_call = NoCall
    /\ adapter_result = NoReturn

registry == <<API_PROVIDERS, current_provider_index>>
lookup_locals == <<attempts, steps, ret>>
history == <<calls, dns_calls, sleeps>>
files == <<argv_len, input_file, output_file>>
adapter == <<adapter_call, adapter_result>>
process == <<stdout, exit_status, exception>>

-----------------------------------------------------------------------------
(* main *)

\* the exit status of a process whose main() returned
ExitAfterReturn == 0

\* the exit status after sys.exit(1) or an uncaught exception
ExitFailure == 1

MainUsage ==
    /\ pc = "main"
    /\ argv_len # 3
    /\ stdout' = Append(stdout, "Usage: python ip_lookup.py <input_file> <output_file>")
    /\ exit_status' = ExitFailure
    /\ pc' = "exited"
    /\ UNCHANGED <<adapter, files, exception, entries, results, i, ip, registry, lookup_locals, history>>

MainRun ==
    /\ pc = "main"
    /\ argv_len = 3
    /\ pc' = "open"
    /\ UNCHANGED <<adapter, files, process, entries, results, i, ip, registry,
                   lookup_locals, history>>

-----------------------------------------------------------------------------
(* process_file: reading the input *)

ReadEntries ==
    /\ pc = "open"
    /\ input_file.status = "ok"
    /\ entries' = read_entries(input_file.lines)
    /\ results' = <<>>
    /\ i' = 1
    /\ pc' = "for"
    /\ UNCHANGED <<adapter, files, process, ip, registry, lookup_locals, history>>

ReadFails ==
    /\ pc = "open"
    /\ input_file.status # "ok"
    /\ stdout' = Append(stdout, IF input_file.status = "missing"
                                THEN "Error: File not found"
                                ELSE "Error reading file")
    /\ exit_status' = ExitAfterReturn
    /\ pc' = "exited"
    /\ UNCHANGED <<adapter, files, exception, entries, results, i, ip, registry, lookup_locals, history>>

-----------------------------------------------------------------------------
(* process_file: the head of the loop over the entries *)

DnsFailedRecord(entry) ==
    [input |-> entry, ip |-> "N/A", owner |-> "DNS resolution failed",
     region |-> "N/A", api_used |-> "N/A"]

\* the entry is an IP literal: the lookup is called with the entry itself
EntryIsLiteral ==
    /\ pc = "for"
    /\ i <= Len(entries)
    /\ is_valid_ip(entries[i])
    /\ ip' = entries[i]
    /\ attempts' = 0
    /\ steps' = 0
    /\ pc' = "while"
    /\ UNCHANGED <<adapter, files, process, entries, results, i, ret, registry, history>>

\* the entry is resolved as a host name
EntryIsName ==
    /\ pc = "for"
    /\ i <= Len(entries)
    /\ ~is_valid_ip(entries[i])
    /\ \E answer \in GetHostByName(entries[i]) :
          LET r == resolve_dns(answer) IN
          /\ dns_calls' = Append(dns_calls, [entry |-> i, answer |-> answer.kind])
          /\ IF r.raised
             THEN /\ exception' = answer.kind
                  /\ exit_status' = ExitFailure
                  /\ pc' = "exited"
                  /\ UNCHANGED <<stdout, results, i, ip, attempts, steps>>
             ELSE IF r.value = PyNone
             THEN /\ stdout' = Append(stdout, "Could not resolve DNS name")
                  /\ results' = Append(results, DnsFailedRecord(entries[i]))
                  /\ i' = i + 1
                  /\ pc' = "for"
                  /\ UNCHANGED <<exit_status, exception, ip, attempts, steps>>
             ELSE /\ ip' = r.value
                  /\ attempts' = 0
                  /\ steps' = 0
                  /\ pc' = "while"
                  /\ UNCHANGED <<process, results, i>>
    /\ UNCHANGED <<adapter, files, entries, ret, registry, calls, sleeps>>

-----------------------------------------------------------------------------
(* lookup_ip_with_fallback: one iteration of the while loop per action *)

\* variant: the flag is never set
MarkFailed_noop(providers, index, success) == providers

\* variant: the flag is set after every answer
MarkFailed_always(providers, index, success) ==
    [providers EXCEPT ![index + 1].failed = TRUE]

\* provider['failed'] = True, when the adapter did not succeed
MarkFailed(providers, index, success) ==
    IF success THEN providers ELSE [providers EXCEPT ![index + 1].failed = TRUE]

\* variant: the cursor moves on after every answer
CursorAfter_rr(index, success) == NextIndex(index)

\* the cursor after the adapter of the provider under it has answered
CursorAfter(index, success) == IF success THEN index ELSE NextIndex(index)

\* variant: name and delay of the first provider of the registry
ReturnValue_first(out, provider) ==
    <<out[1], out[2], InitialProviders[1].name, InitialProviders[1].delay>>

\* return owner, region, provider['name'], provider['delay']
ReturnValue(out, provider) == <<out[1], out[2], provider.name, provider.delay>>

\* the provider under the cursor has failed: skip it
SkipProvider ==
    /\ pc = "while"
    /\ LoopContinues(attempts)
    /\ ShouldSkip(Provider(current_provider_index))
    /\ current_provider_index' = NextIndex(current_provider_index)
    /\ attempts' = attempts + 1
    /\ steps' = steps + 1
    /\ UNCHANGED <<adapter, files, process, pc, entries, results, i, ip, ret,
                   API_PROVIDERS, history>>

\* the provider under the cursor is tried
TryProvider ==
    /\ pc = "while"
    /\ LoopContinues(attempts)
    /\ ~ShouldSkip(Provider(current_provider_index))
    /\ \E resp \in Responses :
          LET provider == Provider(current_provider_index)
              out == CallFunc(provider.func, resp)
          IN  /\ calls' = Append(calls, [entry |-> i, provider |-> current_provider_index,
                                        owner |-> out[1], region |-> out[2],
                                        success |-> out[3]])
              /\ API_PROVIDERS' = MarkFailed(API_PROVIDERS, current_provider_index, out[3])
              /\ current_provider_index' = CursorAfter(current_provider_index, out[3])
              /\ IF out[3]
                 THEN /\ ret' = ReturnValue(out, provider)
                      /\ pc' = "returned"
                      /\ UNCHANGED <<stdout, attempts>>
                 ELSE /\ stdout' = Append(stdout, "Rate limit hit on " \o provider.name)
                      /\ attempts' = attempts + 1
                      /\ UNCHANGED <<pc, ret>>
    /\ steps' = steps + 1
    /\ UNCHANGED <<adapter, files, exit_status, exception, entries, results, i, ip, dns_calls, sleeps>>

\* the loop has run out of attempts
AllExhausted ==
    /\ pc = "while"
    /\ ~LoopContinues(attempts)
    /\ ret' = Sentinel
    /\ pc' = "returned"
    /\ UNCHANGED <<adapter, files, process, entries, results, i, ip, registry,
                   attempts, steps, history>>

-----------------------------------------------------------------------------
(* process_file: the record of the entry and the pacing pause *)

ResultRecord(entry, addr, r) ==
    [input |-> entry, ip |-> addr, owner |-> r[1], region |-> r[2], api_used |-> r[3]]

\* variant: a pause after the last entry as well
ShouldSleep_le(delay, n, total) == delay > 0 /\ n <= total

ShouldSleep(delay, n, total) == delay > 0 /\ n < total

RecordResult ==
    /\ pc = "returned"
    /\ results' = Append(results, ResultRecord(entries[i], ip, ret))
    /\ sleeps' = IF ShouldSleep(ret[4], i, Len(entries))
                 THEN Append(sleeps, [after |-> i, secs |-> ret[4]])
                 ELSE sleeps
    /\ i' = i + 1
    /\ pc' = "for"
    /\ UNCHANGED <<adapter, files, process, entries, ip, registry, lookup_locals,
                   calls, dns_calls>>

-----------------------------------------------------------------------------
(* process_file: the report *)

Report(rs) == [banner |-> "IP/DNS LOOKUP RESULTS", blocks |-> rs]

WriteOutput ==
    /\ pc = "for"
    /\ i > Len(entries)
    /\ \E writable \in BOOLEAN :
          IF writable
          THEN /\ output_file' = Report(results)
               /\ stdout' = Append(stdout, "Results saved")
          ELSE /\ output_file' = output_file
               /\ stdout' = Append(stdout, "Error writing output file")
    /\ exit_status' = ExitAfterReturn
    /\ pc' = "exited"
    /\ UNCHANGED <<adapter, argv_len, input_file, exception, entries, results, i, ip, registry,
                   lookup_locals, history>>

-----------------------------------------------------------------------------

Next ==
    \/ MainUsage
    \/ MainRun
    \/ ReadEntries
    \/ ReadFails
    \/ EntryIsLiteral
    \/ EntryIsName
    \/ SkipProvider
    \/ TryProvider
    \/ AllExhausted
    \/ RecordResult
    \/ WriteOutput

Spec == Init /\ [][Next]_vars

TypeOK ==
    /\ pc \in {"main", "open", "for", "while", "returned", "exited", "adapter", "adapter_done"}
    /\ current_provider_index \in 0..(N - 1)
    /\ attempts \in 0..N

-----------------------------------------------------------------------------
(* The adapters on their own: one adapter is called once, with one of the  *)
(* things its HTTP request can do                                          *)

IspOnlyData ==
    [status |-> "success", success |-> TRUE, isp |-> "Google ISP",
     regionName |-> "California", region |-> "California",
     country |-> "United States", country_name |-> "United States",
     connection |-> [isp |-> "Google ISP"]]

EmptyOrgData ==
    [status |-> "success", success |-> TRUE, org |-> "", isp |-> "Google ISP",
     connection |-> [org |-> "", isp |-> "Google ISP"]]

EmptyData == [k \in {} |-> PyNone]

ReasonOnlyData == [reason |-> "RateLimited"]

ErrorOnlyData == [error |-> TRUE]

AdapterBodies ==
    { FoundData, FailData, RateLimitedData, IspOnlyData, EmptyOrgData, EmptyData,
      ReasonOnlyData, ErrorOnlyData }

HTTPErrorCodes == {400, 403, 404, 429, 500, 503}

ExceptionKinds == {"Exception", "URLError", "InvalidJSON", "NotAnObject"}

AdapterResponses ==
    { [kind |-> "body", code |-> 200, data |-> d] : d \in AdapterBodies }
        \cup { [kind |-> "HTTPError", code |-> c, data |-> <<>>] : c \in HTTPErrorCodes }
        \cup { [kind |-> k, code |-> 0, data |-> <<>>] : k \in ExceptionKinds }

AdapterFuncs == { InitialProviders[p].func : p \in 1..N }

InitAdapters ==
    /\ argv_len = 3
    /\ input_file = [status |-> "ok", lines |-> <<>>]
    /\ output_file = "absent"
    /\ stdout = <<>>
    /\ pc = "adapter"
    /\ exit_status = -1
    /\ exception = PyNone
    /\ entries = <<>>
    /\ results = <<>>
    /\ i = 0
    /\ ip = "8.8.8.8"
    /\ ret = NoReturn
    /\ API_PROVIDERS = InitialProviders
    /\ current_provider_index = 0
    /\ attempts = 0
    /\ steps = 0
    /\ calls = <<>>
    /\ dns_calls = <<>>
    /\ sleeps = <<>>
    /\ adapter_call \in [func : AdapterFuncs, resp : AdapterResponses]
    /\ adapter_result = NoReturn

\* owner, region, success = func(ip)
CallAdapter ==
    /\ pc = "adapter"
    /\ adapter_result' = CallFunc(adapter_call.func, adapter_call.resp)
    /\ pc' = "adapter_done"
    /\ UNCHANGED <<adapter_call, files, process, entries, results, i, ip, registry,
                   lookup_locals, history>>

NextAdapters == CallAdapter

SpecAdapters == InitAdapters /\ [][NextAdapters]_vars

-----------------------------------------------------------------------------
(* Vocabulary of the properties *)

Last(s) == s[Len(s)]

Providers == 0..(N - 1)

Disabled(p) == Provider(p).failed

AllDisabled == \A p \in Providers : Disabled(p)

\* the adapter invocations made for entry e
CallsFor(e) == { k \in 1..Len(calls) : calls[k].entry = e }

\* this step invokes an adapter
Invokes == Len(calls') = Len(calls) + 1

\* number of cursor moves from provider a to provider b
Dist(a, b) == (b - a) % N

\* p is the first provider after q, in registry order, that is not disabled
NextEnabledAfter(q, p) ==
    /\ p # q
    /\ ~Disabled(p)
    /\ \A r \in Providers : (r # q /\ Dist(q, r) < Dist(q, p)) => Disabled(r)

IsSentinel(r) == r = <<"All APIs exhausted", "N/A", "None", 0>>

-----------------------------------------------------------------------------
(* C1  Monotonic disablement: once the adapter of a provider has returned  *)
(* the rate-limit outcome, that adapter is never invoked again, neither    *)
(* later in the same lookup nor for any later address.                     *)

MonotonicDisablement ==
    \A j, k \in 1..Len(calls) :
        (j < k /\ ~calls[j].success) => calls[k].provider # calls[j].provider

\* a provider was rate-limited for one address and two adapters were invoked
\* for a later address, the first of them rate-limited as well
MonotonicDisablementWitness ==
    \E j, k, l \in 1..Len(calls) :
        /\ j < k /\ k < l
        /\ ~calls[j].success /\ ~calls[k].success
        /\ calls[k].entry > calls[j].entry
        /\ calls[l].entry = calls[k].entry

-----------------------------------------------------------------------------
(* C2  Exhaustion short-circuit: while every provider is disabled, a       *)
(* lookup invokes no adapter and can only return the sentinel; a lookup    *)
(* that starts with every provider disabled has invoked no adapter when it *)
(* returns.                                                                *)

ExhaustionStep ==
    (pc = "while" /\ AllDisabled) =>
        /\ calls' = calls
        /\ pc' \in {"while", "returned"}
        /\ pc' = "returned" => IsSentinel(ret')
        /\ UNCHANGED API_PROVIDERS

\* a lookup is being started while every provider is disabled
ExhaustedCallStart == pc = "for" /\ pc' = "while" /\ AllDisabled

ExhaustionShortCircuit ==
    /\ [][ExhaustionStep]_vars
    /\ [][ExhaustedCallStart => CallsFor(i) = {}]_vars
    /\ [](pc = "returned" /\ AllDisabled /\ (\A k \in CallsFor(i) : calls[k].success)
            => IsSentinel(ret) /\ CallsFor(i) = {})

\* the sentinel is returned without any adapter call for the address that
\* comes right after the one during which the last provider was disabled
ExhaustionShortCircuitWitness ==
    /\ pc = "returned"
    /\ IsSentinel(ret)
    /\ i > 1
    /\ CallsFor(i) = {}
    /\ \E k \in CallsFor(i - 1) : ~calls[k].success
    /\ results[i - 1].api_used = "None"

-----------------------------------------------------------------------------
(* C3  Stickiness: when a lookup returns a result of provider p, the       *)
(* cursor is p on return, and p is the first adapter invoked for the next  *)
(* address that reaches the lookup.                                        *)

Stickiness ==
    /\ (pc = "returned" /\ ~IsSentinel(ret)) =>
            /\ calls # <<>>
            /\ Last(calls).success
            /\ Last(calls).entry = i
            /\ current_provider_index = Last(calls).provider
            /\ ret[3] = InitialProviders[Last(calls).provider + 1].name
    /\ \A k \in 1..(Len(calls) - 1) :
            calls[k].success =>
                /\ calls[k + 1].entry > calls[k].entry
                /\ calls[k + 1].provider = calls[k].provider

\* provider ipapi.co answered an address, the next entry failed to resolve,
\* and the entry after it was given to ipapi.co first
StickinessWitness ==
    \E k \in 1..(Len(calls) - 1) :
        /\ calls[k].success
        /\ calls[k].provider = 1
        /\ calls[k + 1].entry = calls[k].entry + 2
        /\ results[calls[k].entry + 1].owner = "DNS resolution failed"

-----------------------------------------------------------------------------
(* C4  Rate-limit failover: when the adapter of provider p returns the     *)
(* rate-limit outcome, p is marked failed, the cursor moves to (p+1) mod N *)
(* and the same lookup goes on; the next adapter it invokes is that of the *)
(* next provider in registry order that is not disabled, which the         *)
(* attempts left always suffice to reach; if that provider answers, the    *)
(* result carries its name.                                                *)

RateLimitStep ==
    (Invokes /\ ~Last(calls').success) =>
        LET p == current_provider_index IN
        /\ Last(calls').provider = p
        /\ API_PROVIDERS' = [API_PROVIDERS EXCEPT ![p + 1].failed = TRUE]
        /\ current_provider_index' = (p + 1) % N
        /\ pc' = "while"
        /\ UNCHANGED <<results, i, ip, ret>>

FailoverStep ==
    (Invokes /\ calls # <<>> /\ Last(calls).entry = i /\ ~Last(calls).success) =>
        LET p == current_provider_index IN
        /\ NextEnabledAfter(Last(calls).provider, p)
        /\ Last(calls').success =>
              /\ pc' = "returned"
              /\ ret'[3] = InitialProviders[p + 1].name

\* some provider is not disabled, and the attempts left reach the first one
EnabledProviderInReach ==
    (pc = "while" /\ ~AllDisabled) =>
        \E p \in Providers :
            /\ ~Disabled(p)
            /\ \A r \in Providers :
                  Dist(current_provider_index, r) < Dist(current_provider_index, p)
                      => Disabled(r)
            /\ attempts + Dist(current_provider_index, p) < N

RateLimitFailover ==
    /\ [][RateLimitStep]_vars
    /\ [][FailoverStep]_vars
    /\ []EnabledProviderInReach

\* the first provider is rate-limited on the first call and the record of
\* the first address names the second provider
RateLimitFailoverWitness ==
    /\ Len(calls) >= 2
    /\ calls[1].provider = 0 /\ ~calls[1].success
    /\ calls[2].provider = 1 /\ calls[2].success /\ calls[2].entry = calls[1].entry
    /\ Len(results) >= calls[1].entry
    /\ results[calls[1].entry].api_used = "ipapi.co"

-----------------------------------------------------------------------------
(* C5  Bounded attempts: a lookup runs at most N iterations of its loop,   *)
(* every step taken inside the loop is an iteration or the return, the     *)
(* adapter of a provider is invoked at most once for an address and at     *)
(* most N adapters are invoked for it.                                     *)

BoundedNow ==
    /\ steps <= N
    /\ pc = "while" => steps = attempts
    /\ \A j, k \in 1..Len(calls) :
          (j < k /\ calls[j].entry = calls[k].entry) => calls[j].provider # calls[k].provider
    /\ \A e \in 1..Len(entries) : Cardinality(CallsFor(e)) <= N

LoopProgress ==
    pc = "while" =>
        \/ pc' = "while" /\ steps' = steps + 1
        \/ pc' = "returned" /\ steps' \in {steps, steps + 1}

BoundedAttempts == []BoundedNow /\ [][LoopProgress]_vars

\* a lookup that used all N iterations: N adapters were invoked for one
\* address and the call returned
BoundedAttemptsWitness ==
    /\ pc = "returned"
    /\ steps = N
    /\ Cardinality(CallsFor(i)) = N

-----------------------------------------------------------------------------
(* C6  One record per entry, in order, and no abort: whatever the DNS      *)
(* resolver and the adapters do, process_file raises no exception while it *)
(* handles an entry, holds one record per entry handled so far, and ends   *)
(* with exactly one record per non-blank line of the input, the k-th       *)
(* record having the k-th non-blank line as its input.                     *)

IsBlank(line) == \A k \in 1..Len(line) : line[k] = WS

NonBlankLines == SelectSeq(input_file.lines, LAMBDA line : ~IsBlank(line))

OneRecordPerEntry ==
    /\ exception = PyNone
    /\ pc \in {"for", "while", "returned"} =>
          /\ Len(results) = i - 1
          /\ \A k \in 1..Len(results) : results[k].input = strip(NonBlankLines[k])
    /\ (pc = "exited" /\ argv_len = 3 /\ input_file.status = "ok") =>
          /\ Len(results) = Len(NonBlankLines)
          /\ \A k \in 1..Len(results) : results[k].input = strip(NonBlankLines[k])

-----------------------------------------------------------------------------
(* C7  Soft failure is a used, non-retriable outcome: when the adapter of  *)
(* the provider under the cursor answers with success flag True and an     *)
(* error text or "Unknown" as owner, the lookup returns at once with that  *)
(* owner and region and the name and delay of that provider, the failed    *)
(* flags and the cursor stay as they are, and no further adapter is        *)
(* invoked for the address.                                                *)

SoftOwners == {"Unknown", "HTTP Error: 500", "Error: timed out"}

IsSoftFailure(call) == call.success /\ call.owner \in SoftOwners

SoftFailureStep ==
    (Invokes /\ IsSoftFailure(Last(calls'))) =>
        LET p == current_provider_index
            c == Last(calls')
        IN  /\ c.provider = p
            /\ pc' = "returned"
            /\ ret' = <<c.owner, c.region, InitialProviders[p + 1].name,
                        InitialProviders[p + 1].delay>>
            /\ UNCHANGED <<API_PROVIDERS, current_provider_index>>
            /\ ~Disabled(p)

SoftFailureEndsLookup ==
    \A j, k \in 1..Len(calls) :
        (j < k /\ IsSoftFailure(calls[j])) => calls[k].entry > calls[j].entry

SoftFailureIsUsed == [][SoftFailureStep]_vars /\ []SoftFailureEndsLookup

\* a soft failure with an error text was recorded for an address under the
\* name of the provider that gave it, and the same provider was invoked
\* first for the next address
SoftFailureIsUsedWitness ==
    \E k \in 1..(Len(calls) - 1) :
        /\ calls[k].success
        /\ calls[k].owner = "HTTP Error: 500"
        /\ calls[k].region = "N/A"
        /\ Len(results) >= calls[k].entry
        /\ results[calls[k].entry].owner = "HTTP Error: 500"
        /\ results[calls[k].entry].api_used = InitialProviders[calls[k].provider + 1].name
        /\ calls[k + 1].provider = calls[k].provider

-----------------------------------------------------------------------------
(* C8  DNS failure bypasses the lookup: when the entry is no IP literal    *)
(* and resolve_dns returns no address, process_file appends the record     *)
(* {ip "N/A", owner "DNS resolution failed", region "N/A", api_used "N/A"} *)
(* for it, invokes no adapter for the entry, leaves the cursor and the     *)
(* failed flags as they are, and goes on with the next entry.              *)

DnsFailureStep ==
    (Len(dns_calls') = Len(dns_calls) + 1 /\ Last(dns_calls').answer = "gaierror") =>
        /\ ~is_valid_ip(entries[i])
        /\ Last(dns_calls').entry = i
        /\ results' = Append(results,
                        [input |-> entries[i], ip |-> "N/A",
                         owner |-> "DNS resolution failed", region |-> "N/A",
                         api_used |-> "N/A"])
        /\ UNCHANGED <<API_PROVIDERS, current_provider_index, calls, sleeps, exception>>
        /\ i' = i + 1
        /\ pc' = "for"

NoAdapterAfterDnsFailure ==
    \A d \in 1..Len(dns_calls) :
        dns_calls[d].answer = "gaierror" => CallsFor(dns_calls[d].entry) = {}

-----------------------------------------------------------------------------
(* C9  Input error aborts with failure status: when the input file is      *)
(* missing or unreadable, the run reports the error, resolves no name,     *)
(* calls no provider, writes no output and exits with a non-zero status.   *)

InputErrorAborts ==
    (pc = "exited" /\ argv_len = 3 /\ input_file.status # "ok") =>
        /\ stdout # <<>>
        /\ dns_calls = <<>>
        /\ calls = <<>>
        /\ output_file = "absent"
        /\ exit_status # 0

-----------------------------------------------------------------------------
(* C10  Pacing: the record of an address and the pause after it are one    *)
(* step; the pause is made exactly when the address is not the last one    *)
(* and the lookup did not return the sentinel, and it lasts the delay the  *)
(* lookup returned; nothing else pauses.                                   *)

PacingStep ==
    IF pc = "returned"
    THEN /\ i' = i + 1
         /\ sleeps' = IF i < Len(entries) /\ ~IsSentinel(ret)
                      THEN Append(sleeps, [after |-> i, secs |-> ret[4]])
                      ELSE sleeps
    ELSE sleeps' = sleeps

DelayReturned ==
    pc = "returned" =>
        IF IsSentinel(ret) THEN ret[4] = 0
        ELSE /\ ret[4] > 0
             /\ \E p \in Providers : /\ InitialProviders[p + 1].name = ret[3]
                                     /\ InitialProviders[p + 1].delay = ret[4]

Pacing == [][PacingStep]_vars /\ []DelayReturned

\* a run of three addresses: a pause after the first, none after the second,
\* for which the lookup returned the sentinel, and none after the last
PacingWitness ==
    /\ pc = "exited"
    /\ Len(results) = 3
    /\ results[1].api_used = "ipapi.co"
    /\ results[2].api_used = "None"
    /\ results[3].api_used = "None"
    /\ sleeps = << [after |-> 1, secs |-> 20] >>

-----------------------------------------------------------------------------
(* Vocabulary of the adapter properties: what the request of an adapter    *)
(* did, told from the response alone                                       *)

RateLimitOutcome == <<PyNone, PyNone, FALSE>>

Has(data, key, value) == key \in DOMAIN data /\ data[key] = value

\* the rate-limit signal of a provider: status 429 or, for ipapi.co, an
\* error payload with the reason "RateLimited"
IsRateLimitSignal(func, resp) ==
    \/ resp.kind = "HTTPError" /\ resp.code = 429
    \/ /\ func = "lookup_ipapi_co"
       /\ resp.kind = "body"
       /\ "error" \in DOMAIN resp.data
       /\ Has(resp.data, "reason", "RateLimited")

IsNetworkError(resp) == resp.kind \in {"Exception", "URLError"}

IsMalformedPayload(resp) == resp.kind \in {"InvalidJSON", "NotAnObject"}

IsOtherStatus(resp) == resp.kind = "HTTPError" /\ resp.code \notin {200, 429}

\* the provider answered with a payload that reports an unsuccessful lookup
ReportsUnsuccessful(func, resp) ==
    /\ resp.kind = "body"
    /\ CASE func = "lookup_ipapi_com" -> ~Has(resp.data, "status", "success")
         [] func = "lookup_ipapi_co"  -> "error" \in DOMAIN resp.data
         [] OTHER                     -> ~Has(resp.data, "success", TRUE)

IsMessage(owner) == owner \notin {PyNone, ""}

-----------------------------------------------------------------------------
(* C11  SoftFailure shape: for each adapter, every failure that is not a   *)
(* rate-limit signal (network error, malformed payload, HTTP status other  *)
(* than 200 and 429, lookup reported unsuccessful by the provider) gives   *)
(* the success flag True, a message in place of the owner and the region   *)
(* "N/A".                                                                  *)

SoftFailureShape ==
    pc = "adapter_done" =>
        LET func == adapter_call.func
            resp == adapter_call.resp
        IN  ( /\ ~IsRateLimitSignal(func, resp)
              /\ \/ IsNetworkError(resp)
                 \/ IsMalformedPayload(resp)
                 \/ IsOtherStatus(resp)
                 \/ ReportsUnsuccessful(func, resp) )
            => /\ adapter_result[3] = TRUE
               /\ IsMessage(adapter_result[1])
               /\ adapter_result[2] = "N/A"

(* C11 as amended: the region is "N/A" and the owner an error text for a   *)
(* network error, a malformed payload and an HTTP status other than 200    *)
(* and 429; for a lookup the provider reports unsuccessful, owner and      *)
(* region are both "Unknown".  The success flag is True in all of them.    *)

SoftFailureShapeAmended ==
    pc = "adapter_done" =>
        LET func == adapter_call.func
            resp == adapter_call.resp
        IN  ~IsRateLimitSignal(func, resp) =>
            /\ (IsNetworkError(resp) \/ IsMalformedPayload(resp)) =>
                  adapter_result = <<"Error: " \o ExceptionText(resp), "N/A", TRUE>>
            /\ IsOtherStatus(resp) =>
                  adapter_result = <<"HTTP Error: " \o ToString(resp.code), "N/A", TRUE>>
            /\ ReportsUnsuccessful(func, resp) =>
                  adapter_result = <<"Unknown", "Unknown", TRUE>>

\* ipwhois.app was answered with a body that is no JSON and returned the
\* error text with the region "N/A"
SoftFailureShapeWitness ==
    /\ pc = "adapter_done"
    /\ adapter_call.func = "lookup_ipwhois_app"
    /\ adapter_call.resp.kind = "InvalidJSON"
    /\ adapter_result[2] = "N/A"
    /\ adapter_result[3] = TRUE

-----------------------------------------------------------------------------
(* C12  Rate-limit detection is exact: an adapter returns the rate-limit   *)
(* outcome (None, None, False) exactly when the provider signalled a rate  *)
(* limit, and returns the success flag True for everything else.           *)

RateLimitDetectionExact ==
    pc = "adapter_done" =>
        /\ adapter_result = RateLimitOutcome
              <=> IsRateLimitSignal(adapter_call.func, adapter_call.resp)
        /\ adapter_result # RateLimitOutcome => adapter_result[3] = TRUE

\* ipapi.co answered 200 with the payload {error, reason: RateLimited} and
\* the adapter returned the rate-limit outcome
RateLimitDetectionExactWitness ==
    /\ pc = "adapter_done"
    /\ adapter_call.func = "lookup_ipapi_co"
    /\ adapter_call.resp.kind = "body"
    /\ adapter_call.resp.data = RateLimitedData
    /\ adapter_result = RateLimitOutcome

-----------------------------------------------------------------------------
(* C13  Literal IPs skip DNS: an entry that is an IP literal is never      *)
(* given to the DNS resolver; it is itself the ip of the lookup and of the *)
(* record.                                                                 *)

LiteralSkipsDns ==
    /\ \A d \in 1..Len(dns_calls) : entries[dns_calls[d].entry] \notin IPLiterals
    /\ (pc \in {"while", "returned"} /\ entries[i] \in IPLiterals) => ip = entries[i]
    /\ \A k \in 1..Len(results) :
          results[k].input \in IPLiterals => results[k].ip = results[k].input

\* a literal was looked up and recorded after a name had gone through the
\* resolver
LiteralSkipsDnsWitness ==
    \E k \in 1..Len(results) :
        /\ results[k].input \in IPLiterals
        /\ results[k].ip = "8.8.8.8"
        /\ results[k].api_used = "ip-api.com"
        /\ \E d \in 1..Len(dns_calls) : dns_calls[d].entry < k
        /\ \A d \in 1..Len(dns_calls) : dns_calls[d].entry # k

-----------------------------------------------------------------------------
(* C14  Exhaustion is exact: a lookup returns the sentinel only when every *)
(* provider is disabled and no adapter answered it; a lookup that returns  *)
(* anything else was answered by an adapter.                               *)

ExhaustionExactNow ==
    pc = "returned" =>
        IF IsSentinel(ret)
        THEN /\ AllDisabled
             /\ \A k \in CallsFor(i) : ~calls[k].success
        ELSE \E k \in CallsFor(i) : calls[k].success

SentinelStep == (pc = "while" /\ pc' = "returned" /\ IsSentinel(ret')) => AllDisabled

ExhaustionExact == []ExhaustionExactNow /\ [][SentinelStep]_vars

\* a lookup that started at the third provider with two providers enabled,
\* had both rate-limited and returned the sentinel
ExhaustionExactWitness ==
    /\ pc = "returned"
    /\ IsSentinel(ret)
    /\ i > 1
    /\ { calls[k].provider : k \in CallsFor(i) } = {2, 3}

-----------------------------------------------------------------------------
(* C15  The registry is owned by the lookup and the flags are write-once:  *)
(* a failed flag changes only from False to True, only in a step of the    *)
(* lookup in which the adapter of that provider returned the rate-limit    *)
(* outcome; no step outside the lookup changes a flag or the cursor, and   *)
(* nothing else of a provider ever changes.                                *)

RegistryStep ==
    /\ \A p \in Providers :
          /\ Disabled(p) => API_PROVIDERS'[p + 1].failed
          /\ (~Disabled(p) /\ API_PROVIDERS'[p + 1].failed) =>
                /\ pc = "while"
                /\ Invokes
                /\ Last(calls').provider = p
                /\ ~Last(calls').success
          /\ [API_PROVIDERS'[p + 1] EXCEPT !.failed = FALSE] = InitialProviders[p + 1]
    /\ pc # "while" => UNCHANGED <<API_PROVIDERS, current_provider_index>>

RegistryOwnership == [][RegistryStep]_vars

\* a run that disabled the first provider, resolved a name, paused and
\* wrote its report
RegistryOwnershipWitness ==
    /\ pc = "exited"
    /\ stdout # <<>>
    /\ Last(stdout) = "Results saved"
    /\ Disabled(0)
    /\ ~Disabled(1)
    /\ dns_calls # <<>>
    /\ sleeps # <<>>

-----------------------------------------------------------------------------
(* C16  Priority invariant: every provider below the cursor is disabled;   *)
(* the provider that answers an address is the lowest one that is not      *)
(* disabled; the cursor comes back to 0 only when all are disabled.        *)

BelowCursorDisabled ==
    \A q \in Providers : q < current_provider_index => Disabled(q)

AnswerIsLowestEnabled ==
    (pc = "returned" /\ ~IsSentinel(ret)) =>
        \E p \in Providers :
            /\ InitialProviders[p + 1].name = ret[3]
            /\ ~Disabled(p)
            /\ \A q \in Providers : q < p => Disabled(q)

WrapStep ==
    (current_provider_index # 0 /\ current_provider_index' = 0) =>
        \A p \in Providers : API_PROVIDERS'[p + 1].failed

PriorityInvariant ==
    /\ []BelowCursorDisabled
    /\ []AnswerIsLowestEnabled
    /\ [][WrapStep]_vars

\* the third provider answers while the first two are disabled
PriorityInvariantWitness ==
    /\ pc = "returned"
    /\ ret[3] = "ipwho.is"
    /\ current_provider_index = 2
    /\ Disabled(0) /\ Disabled(1)

-----------------------------------------------------------------------------
(* C17  Result consistency: the cursor is always within 0..N-1; when a     *)
(* lookup returns a result that is not the sentinel, its name and delay    *)
(* are those of the provider under the cursor, that provider is not        *)
(* disabled, and it is the only provider whose adapter did not return the  *)
(* rate-limit outcome during the call.                                     *)

Answered(e) == { k \in CallsFor(e) : calls[k].success }

ResultConsistency ==
    /\ current_provider_index \in Providers
    /\ (pc = "returned" /\ ~IsSentinel(ret)) =>
          /\ ret[3] = API_PROVIDERS[current_provider_index + 1].name
          /\ ret[4] = API_PROVIDERS[current_provider_index + 1].delay
          /\ ~API_PROVIDERS[current_provider_index + 1].failed
          /\ Cardinality(Answered(i)) = 1
          /\ \A k \in Answered(i) : calls[k].provider = current_provider_index

\* the last provider answers after the three before it were rate-limited
\* in the same call
ResultConsistencyWitness ==
    /\ pc = "returned"
    /\ ret[3] = "ipwhois.app"
    /\ ret[4] = 10
    /\ Cardinality(CallsFor(i)) = N

-----------------------------------------------------------------------------
(* C18  Run-wide call budget: every adapter invocation gives the record of *)
(* an address or disables a provider, so the number of invocations is the  *)
(* number of records with a provider name (the result about to be recorded *)
(* included) plus the number of disabled providers, and at most the number *)
(* of entries that reached the lookup plus N; a provider returns the       *)
(* rate-limit outcome at most once in a run.                               *)

ProviderNames == { InitialProviders[p].name : p \in 1..N }

AnsweredRecords == { k \in 1..Len(results) : results[k].api_used \in ProviderNames }

ReachedLookup ==
    Cardinality({ k \in 1..Len(results) : results[k].api_used # "N/A" })
        + (IF pc \in {"while", "returned"} THEN 1 ELSE 0)

CallBudget ==
    /\ Len(calls) = Cardinality(AnsweredRecords)
                      + (IF pc = "returned" /\ ~IsSentinel(ret) THEN 1 ELSE 0)
                      + Cardinality({ p \in Providers : Disabled(p) })
    /\ Len(calls) <= ReachedLookup + N
    /\ \A p \in Providers :
          Cardinality({ k \in 1..Len(calls) : calls[k].provider = p /\ ~calls[k].success }) <= 1

\* a run of three addresses with six invocations: two answers of the first
\* provider, then all four providers rate-limited
CallBudgetWitness ==
    /\ pc = "exited"
    /\ Len(results) = 3
    /\ Len(calls) = 6
    /\ AllDisabled
    /\ results[2].api_used = "ip-api.com"

====
